---- MODULE Spec2Model ----
(***************************************************************************)
(* Slot-based booking engine of the bimbo-lashes server: the slot store,   *)
(* the booking state machine (create / cancel), payment reconciliation     *)
(* (gateway webhooks and the expiry sweep).  Every SQL statement of a      *)
(* handler is one atomic step; handlers interleave between statements.     *)
(***************************************************************************)
EXTENDS Integers, Sequences, FiniteSets, TLC

\* ------------------------------------------------------------------ bounds
\* Number of one-hour slots that exist on the modelled date.
NumSlots == 2
\* Number of createBooking requests that are ever issued.
MaxRequests == 2
\* Number of tasks (request handlers and the sweep pass) that are between
\* their first and their last statement at the same time.
MaxInFlight == 2

\* Rate limiter: time units per second, the last instant of the clock, the
\* number of check calls that are made, and the configuration of the two
\* tiers (max_requests, window in seconds).
UnitsPerSec == 2
MaxClock == 5
MaxChecks == 4
BookingMaxRequests == 2
BookingWindowSecs == 2
AuthMaxRequests == 1
AuthWindowSecs == 1

\* Availability engine: the longest service duration in minutes, the number
\* of hours of a date that may carry a slot, the largest slots_needed, and
\* the furthest date in days from today.
MaxDuration == 181
MaxHours == 4
MaxNeeded == 3
MaxDaysUntil == 5

\* Slot administration: the largest row id of available_slots, and the
\* number of slots of the date that are booked at the same time.
MaxSlotId == 9
MaxDayBooked == 1

\* Client cancel requests that run at the same time, and check calls that
\* wait for an entry lock.
MaxCancels == 2
MaxPending == 2

\* ------------------------------------------------------- program constants
\* payment.rs:11
PAYMENT_EXPIRY_MINUTES == 15
\* admin.rs:216, first hour of an opened day
OPEN_DAY_FIRST_HOUR == 12
\* admin.rs:216, end of the hour range of an opened day (exclusive)
OPEN_DAY_END_HOUR == 20
\* client.rs:729, refund threshold in hours
REFUND_HOURS == 24
\* client.rs:21
TIGHT_MODE_DAYS == 3

NULL == 0

\* Active main services of the catalog (db.rs:76-78): id -> duration_min.
ServiceIds == {1, 3}
DurationMin(s) == IF s = 1 THEN 120 ELSE 60

\* Telegram users that issue client requests; request r comes from ClientOf(r).
ClientOf(r) == 100 + r
Clients == {ClientOf(r) : r \in 1..MaxRequests}

\* Time advances in steps of the expiry timeout: a pending booking is seen
\* at age 0, at exactly the timeout, and past it.
TickMinutes == PAYMENT_EXPIRY_MINUTES

\* Minutes between "now" and the appointment start, as seen by a cancel.
MinutesUntil == {24 * 60, 24 * 60 + 30, 25 * 60}

SlotIds == 1..NumSlots
ReqIds == 1..MaxRequests

\* A time "HH:MM" is the number HH*100+MM: the order of the zero-padded
\* strings that SQLite compares is the order of these numbers.
SlotStart(i) == (OPEN_DAY_FIRST_HOUR + i - 1) * 100
SlotEnd(i) == (OPEN_DAY_FIRST_HOUR + i) * 100
StartTimes == {SlotStart(i) : i \in SlotIds}

Min2(a, b) == IF a < b THEN a ELSE b

AddMinutesNoCarry(time, minutes) == time + minutes

\* client.rs add_minutes_to_time: the hour is capped at 23.
AddMinutesToTime(time, minutes) ==
    LET hour == time \div 100
        min == time % 100
        total == hour * 60 + min + minutes
    IN  Min2(total \div 60, 23) * 100 + (total % 60)

SlotsNeededTruncated(duration_min) == duration_min \div 60

\* client.rs slots_needed_for_duration: (duration_min as f64 / 60.0).ceil().
\* For these durations the f64 quotient is a whole number exactly when 60
\* divides duration_min, and otherwise lies strictly between two whole numbers.
SlotsNeededForDuration(duration_min) ==
    (duration_min \div 60) + (IF duration_min % 60 = 0 THEN 0 ELSE 1)

\* The ids of a set of slots in ORDER BY start_time ASC order.
RECURSIVE OrderByStart(_)
OrderByStart(S) ==
    IF S = {} THEN <<>>
    ELSE LET first == CHOOSE x \in S : \A y \in S : SlotStart(x) <= SlotStart(y)
         IN  <<first>> \o OrderByStart(S \ {first})

\* Ascending list of a set of booking ids (rowid order of a SELECT).
RECURSIVE OrderById(_)
OrderById(S) ==
    IF S = {} THEN <<>>
    ELSE LET first == CHOOSE x \in S : \A y \in S : x <= y
         IN  <<first>> \o OrderById(S \ {first})

\* create_booking's slot query: start_time >= ? AND end_time <= ?.
SelectSlots(start_time, end_time) ==
    OrderByStart({i \in SlotIds : SlotStart(i) >= start_time /\ SlotEnd(i) <= end_time})

Range(seq) == {seq[k] : k \in 1..Len(seq)}

VARIABLES
    is_booked,      \* available_slots.is_booked, per slot
    slot_booking,   \* available_slots.booking_id, per slot (NULL when unset)
    bookings,       \* the bookings table: sequence indexed by rowid
    req,            \* the createBooking handlers
    cc,             \* the client cancel handler
    ac,             \* the operator cancel handler
    wh,             \* the payment.canceled webhook handler
    sw,             \* the expiry sweep task
    refunds,        \* bookings for which a gateway refund was requested
    hook,           \* the last webhook delivery, its answer, and whether it notified the operator
    clock,          \* Instant::now() of the rate limiter, in time units
    stamps,         \* RateLimiter.tiers: per (tier, ip) the recorded timestamps
    checks,         \* the calls of RateLimiter::check so far, with their results
    calc,           \* the availability function being evaluated, with its result
    day,            \* the available_slots rows of one date
    del,            \* the delete_slot handler
    cancels,        \* client cancel_booking handlers that run side by side
    pend            \* RateLimiter::check calls between Instant::now() and the entry lock

limiterVars == <<clock, stamps, checks>>
engineVars == <<calc, day>>
raceVars == <<del, cancels, pend>>
storeVars == <<is_booked, slot_booking, bookings, req, cc, ac, wh, sw, refunds>>

vars == <<is_booked, slot_booking, bookings, req, cc, ac, wh, sw, refunds,
          hook, clock, stamps, checks, calc, day, del, cancels, pend>>

BookingIds == 1..Len(bookings)

IdleReq == [pc |-> "idle", user |-> NULL, service_id |-> NULL, start_time |-> NULL,
            end_time |-> NULL, slots |-> <<>>, booking_id |-> NULL, i |-> 0,
            result |-> 0, raced |-> FALSE]
IdleCancel == [pc |-> "idle", id |-> NULL, payment_status |-> "none",
               payment_id |-> NULL, slot_id |-> NULL, refund_info |-> "none"]
IdleAdmin == [pc |-> "idle", id |-> NULL, slot_id |-> NULL]
IdleWebhook == [pc |-> "idle", id |-> NULL]
IdleSweep == [pc |-> "idle", ids |-> <<>>]
NoDelivery == [event |-> "none", booking_id |-> NULL, status |-> 0, notified |-> FALSE]
NoCall == [fn |-> "none"]
IdleDelete == [pc |-> "idle", id |-> NULL]
CancelIds == 1..MaxCancels
CheckIds == 1..MaxPending
NoCheck == [pc |-> "idle", tier |-> "none", ip |-> NULL, now |-> 0]

\* Rate-limit tiers and client addresses; a key is a (tier, ip) pair.
Tiers == {"auth", "booking"}
Ips == {1, 2}
\* The tiers registered with add_tier; every one has its map of entries.
RouteTiers == {"public", "auth", "booking", "admin"}
Keys == RouteTiers \X Ips

Init ==
    /\ is_booked = [i \in SlotIds |-> FALSE]
    /\ slot_booking = [i \in SlotIds |-> NULL]
    /\ bookings = <<>>
    /\ req = [r \in ReqIds |-> IdleReq]
    /\ cc = IdleCancel
    /\ ac = IdleAdmin
    /\ wh = IdleWebhook
    /\ sw = IdleSweep
    /\ refunds = {}
    /\ hook = NoDelivery
    /\ clock = 0
    /\ stamps = [k \in Keys |-> <<>>]
    /\ checks = <<>>
    /\ calc = NoCall
    /\ day = {}
    /\ del = IdleDelete
    /\ cancels = [h \in CancelIds |-> IdleCancel]
    /\ pend = [c \in CheckIds |-> NoCheck]


\* ------------------------------------------------ SQL statements on slots

\* UPDATE available_slots SET is_booked = 1, booking_id = ?
\*   WHERE id = ? AND is_booked = 0        (zero rows affected when taken)
ClaimSlot(s, b) ==
    IF is_booked[s]
    THEN UNCHANGED <<is_booked, slot_booking>>
    ELSE /\ is_booked' = [is_booked EXCEPT ![s] = TRUE]
         /\ slot_booking' = [slot_booking EXCEPT ![s] = b]

\* UPDATE available_slots SET is_booked = 0, booking_id = NULL WHERE id = ?
ReleaseSlotById(s) ==
    /\ is_booked' = [i \in SlotIds |-> IF i = s THEN FALSE ELSE is_booked[i]]
    /\ slot_booking' = [i \in SlotIds |-> IF i = s THEN NULL ELSE slot_booking[i]]

ReleaseSlotsOfBookingFlagOnly(b) ==
    /\ is_booked' = [i \in SlotIds |-> IF slot_booking[i] = b THEN FALSE ELSE is_booked[i]]
    /\ UNCHANGED slot_booking

\* UPDATE available_slots SET is_booked = 0, booking_id = NULL WHERE booking_id = ?
ReleaseSlotsOfBooking(b) ==
    /\ is_booked' = [i \in SlotIds |-> IF slot_booking[i] = b THEN FALSE ELSE is_booked[i]]
    /\ slot_booking' = [i \in SlotIds |-> IF slot_booking[i] = b THEN NULL ELSE slot_booking[i]]

\* --------------------------------------------- SQL statements on bookings
\* The age of a row stands for now - created_at, which is read only while
\* the row is pending_payment; it is dropped (0) once the row leaves it.

ConfirmAlways(b) ==
    [bookings EXCEPT ![b].status = "confirmed", ![b].payment_status = "paid",
                         ![b].age = 0]

\* UPDATE bookings SET status = 'confirmed', payment_status = 'paid'
\*   WHERE id = ? AND status = 'pending_payment'
ConfirmIfPending(b) ==
    IF bookings[b].status = "pending_payment"
    THEN [bookings EXCEPT ![b].status = "confirmed", ![b].payment_status = "paid",
                         ![b].age = 0]
    ELSE bookings

ExpireIfPendingKeepsPayment(b) ==
    IF bookings[b].status = "pending_payment"
    THEN [bookings EXCEPT ![b].status = "expired", ![b].age = 0]
    ELSE bookings

\* UPDATE bookings SET status = 'expired', payment_status = 'none'
\*   WHERE id = ? AND status = 'pending_payment'
ExpireIfPending(b) ==
    IF bookings[b].status = "pending_payment"
    THEN [bookings EXCEPT ![b].status = "expired", ![b].payment_status = "none",
                         ![b].age = 0]
    ELSE bookings

\* UPDATE bookings SET status = 'expired', payment_status = 'none' WHERE id = ?
ExpireAlways(b) ==
    [bookings EXCEPT ![b].status = "expired", ![b].payment_status = "none",
                         ![b].age = 0]

\* UPDATE bookings SET status = 'cancelled', cancelled_at = ... WHERE id = ?
CancelAlways(b) ==
    [bookings EXCEPT ![b].status = "cancelled", ![b].age = 0]

\* ------------------------------------------------------- create_booking

InFlight(r) == req[r].pc \notin {"idle", "done"}

\* Tasks that are between their first and their last statement.
InFlightCount ==
    Cardinality({r \in ReqIds : InFlight(r)})
    + (IF cc.pc = "idle" THEN 0 ELSE 1) + (IF ac.pc = "idle" THEN 0 ELSE 1)
    + (IF wh.pc = "idle" THEN 0 ELSE 1) + (IF sw.pc = "idle" THEN 0 ELSE 1)

\* What stays of a handler once it has returned: its outcome, the slots it
\* asked for and the booking it inserted.
Returned(r, code) ==
    [IdleReq EXCEPT !.pc = "done", !.result = code, !.slots = req[r].slots,
                    !.booking_id = req[r].booking_id, !.raced = req[r].raced]

\* Request r for service sid at start time st: resolve the service, compute
\* end_time, load the slots of [start, end), 404 when too few exist, 409 when
\* one is booked.
CreateLoadOf(r, sid, st) ==
    /\ req[r].pc = "idle"
    /\ InFlightCount < MaxInFlight
    /\ \E u \in {ClientOf(r)} :
         LET end_time == AddMinutesToTime(st, DurationMin(sid))
             slots == SelectSlots(st, end_time)
             slots_needed == SlotsNeededForDuration(DurationMin(sid))
             raced == \E o \in ReqIds \ {r} :
                          InFlight(o) /\ Range(req[o].slots) \cap Range(slots) # {}
             base == [IdleReq EXCEPT !.user = u, !.service_id = sid,
                         !.start_time = st, !.end_time = end_time, !.raced = raced]
         IN  req' = [req EXCEPT ![r] =
                 IF Len(slots) < slots_needed
                 THEN [IdleReq EXCEPT !.pc = "done", !.result = 404]
                 ELSE IF \E k \in 1..Len(slots) : is_booked[slots[k]]
                 THEN [IdleReq EXCEPT !.pc = "done", !.result = 409, !.slots = slots,
                                      !.raced = raced]
                 ELSE [base EXCEPT !.pc = "insert", !.slots = slots]]
    /\ UNCHANGED <<is_booked, slot_booking, bookings, cc, ac, wh, sw, refunds, hook, limiterVars, engineVars, raceVars>>

CreateLoad(r) == \E sid \in ServiceIds, st \in StartTimes : CreateLoadOf(r, sid, st)

\* INSERT INTO bookings ... 'pending_payment' ... 'pending'; slot_id is the
\* first resolved slot.
CreateInsert(r) ==
    /\ req[r].pc = "insert"
    /\ bookings' = Append(bookings,
         [status |-> "pending_payment", payment_status |-> "pending",
          service_id |-> req[r].service_id, slot_id |-> req[r].slots[1],
          client_tg_id |-> req[r].user,
          start_time |-> req[r].start_time, end_time |-> req[r].end_time,
          yookassa_payment_id |-> NULL, age |-> 0])
    /\ req' = [req EXCEPT ![r].pc = "claim", ![r].booking_id = Len(bookings) + 1,
                          ![r].i = 1]
    /\ UNCHANGED <<is_booked, slot_booking, cc, ac, wh, sw, refunds, hook, limiterVars, engineVars, raceVars>>

\* One iteration of the lock loop: the conditional claim of slots[i].  Only
\* a store error leads to the rollback; zero rows affected is not examined.
CreateClaim(r) ==
    /\ req[r].pc = "claim"
    /\ ClaimSlot(req[r].slots[req[r].i], req[r].booking_id)
    /\ req' = [req EXCEPT ![r].i = @ + 1,
                          ![r].pc = IF req[r].i = Len(req[r].slots) THEN "pay" ELSE "claim"]
    /\ UNCHANGED <<bookings, cc, ac, wh, sw, refunds, hook, limiterVars, engineVars, raceVars>>

\* create_yookassa_payment: the gateway accepts or fails.
CreatePay(r) ==
    /\ req[r].pc = "pay"
    /\ \E ok \in BOOLEAN :
         req' = [req EXCEPT ![r].pc = IF ok THEN "save" ELSE "rollback", ![r].i = 1]
    /\ UNCHANGED <<is_booked, slot_booking, bookings, cc, ac, wh, sw, refunds, hook, limiterVars, engineVars, raceVars>>

\* UPDATE bookings SET yookassa_payment_id = ? WHERE id = ?; then 200.
CreateSave(r) ==
    /\ req[r].pc = "save"
    /\ bookings' = [bookings EXCEPT ![req[r].booking_id].yookassa_payment_id = req[r].booking_id]
    /\ req' = [req EXCEPT ![r] = Returned(r, 200)]
    /\ UNCHANGED <<is_booked, slot_booking, cc, ac, wh, sw, refunds, hook, limiterVars, engineVars, raceVars>>

\* rollback_booking, first statement.
CreateRollbackBooking(r) ==
    /\ req[r].pc = "rollback"
    /\ bookings' = ExpireAlways(req[r].booking_id)
    /\ req' = [req EXCEPT ![r].pc = "rollback_slots", ![r].i = 1]
    /\ UNCHANGED <<is_booked, slot_booking, cc, ac, wh, sw, refunds, hook, limiterVars, engineVars, raceVars>>

\* rollback_booking, one iteration of the release loop; then 500.
CreateRollbackSlot(r) ==
    /\ req[r].pc = "rollback_slots"
    /\ ReleaseSlotById(req[r].slots[req[r].i])
    /\ req' = [req EXCEPT ![r] = IF req[r].i = Len(req[r].slots)
                                  THEN Returned(r, 500)
                                  ELSE [req[r] EXCEPT !.i = @ + 1]]
    /\ UNCHANGED <<bookings, cc, ac, wh, sw, refunds, hook, limiterVars, engineVars, raceVars>>


\* ------------------------------------------------- client cancel_booking

\* SELECT * FROM bookings WHERE id = ? AND client_tg_id = ?
\*   AND status IN ('confirmed', 'pending_payment'); 404 when no row.
ClientCancelFinds(u, b) ==
    /\ bookings[b].client_tg_id = u
    /\ bookings[b].status \in {"confirmed", "pending_payment"}

CancelSelect ==
    /\ cc.pc = "idle"
    /\ InFlightCount < MaxInFlight
    /\ \E u \in Clients, b \in BookingIds :
         /\ ClientCancelFinds(u, b)
         /\ cc' = [IdleCancel EXCEPT !.pc = "refund", !.id = b,
                      !.payment_status = bookings[b].payment_status,
                      !.payment_id = bookings[b].yookassa_payment_id,
                      !.slot_id = bookings[b].slot_id]
    /\ UNCHANGED <<is_booked, slot_booking, bookings, req, ac, wh, sw, refunds, hook, limiterVars, engineVars, raceVars>>

\* process_refund_if_needed: (appointment - now).num_hours() truncates.
ShouldRefund(admin_override, minutes_until) ==
    admin_override \/ (minutes_until \div 60) > REFUND_HOURS

CancelRefundAtAbortsOnFailure(minutes_until) ==
    /\ cc.pc = "refund"
    /\ IF cc.payment_status # "paid"
       THEN /\ cc' = [cc EXCEPT !.pc = "update", !.refund_info = "none"]
            /\ UNCHANGED refunds
       ELSE IF ~ShouldRefund(FALSE, minutes_until)
       THEN /\ cc' = [cc EXCEPT !.pc = "update", !.refund_info = "forfeit"]
            /\ UNCHANGED refunds
       ELSE IF cc.payment_id = NULL
       THEN /\ cc' = [cc EXCEPT !.pc = "update", !.refund_info = "none"]
            /\ UNCHANGED refunds
       ELSE /\ refunds' = refunds \cup {cc.id}
            /\ \E ok \in BOOLEAN :
                 cc' = IF ok
                       THEN [cc EXCEPT !.pc = "mark", !.refund_info = "refunded"]
                       ELSE [IdleCancel EXCEPT !.refund_info = "manual"]
    /\ UNCHANGED <<is_booked, slot_booking, bookings, req, ac, wh, sw, hook, limiterVars, engineVars, raceVars>>

\* process_refund_if_needed(state, booking, false) on the row read by the
\* SELECT, run when the appointment starts minutes_until minutes from now:
\* the decision and, when due, the gateway refund call.
CancelRefundAt(minutes_until) ==
    /\ cc.pc = "refund"
    /\ IF cc.payment_status # "paid"
       THEN /\ cc' = [cc EXCEPT !.pc = "update", !.refund_info = "none"]
            /\ UNCHANGED refunds
       ELSE IF ~ShouldRefund(FALSE, minutes_until)
       THEN /\ cc' = [cc EXCEPT !.pc = "update", !.refund_info = "forfeit"]
            /\ UNCHANGED refunds
       ELSE IF cc.payment_id = NULL
       THEN /\ cc' = [cc EXCEPT !.pc = "update", !.refund_info = "none"]
            /\ UNCHANGED refunds
       ELSE /\ refunds' = refunds \cup {cc.id}
            /\ \E ok \in BOOLEAN :
                 cc' = IF ok
                       THEN [cc EXCEPT !.pc = "mark", !.refund_info = "refunded"]
                       ELSE [cc EXCEPT !.pc = "update", !.refund_info = "manual"]
    /\ UNCHANGED <<is_booked, slot_booking, bookings, req, ac, wh, sw, hook, limiterVars, engineVars, raceVars>>

CancelRefund == \E m \in MinutesUntil : CancelRefundAt(m)

\* UPDATE bookings SET payment_status = 'refunded' WHERE id = ?
CancelMarkRefunded ==
    /\ cc.pc = "mark"
    /\ bookings' = [bookings EXCEPT ![cc.id].payment_status = "refunded"]
    /\ cc' = [cc EXCEPT !.pc = "update"]
    /\ UNCHANGED <<is_booked, slot_booking, req, ac, wh, sw, refunds, hook, limiterVars, engineVars, raceVars>>

CancelUpdate ==
    /\ cc.pc = "update"
    /\ bookings' = CancelAlways(cc.id)
    /\ cc' = [cc EXCEPT !.pc = "free_booking"]
    /\ UNCHANGED <<is_booked, slot_booking, req, ac, wh, sw, refunds, hook, limiterVars, engineVars, raceVars>>

\* free_booking_slots, first statement.
CancelFreeByBooking ==
    /\ cc.pc = "free_booking"
    /\ ReleaseSlotsOfBooking(cc.id)
    /\ cc' = [cc EXCEPT !.pc = "free_slot"]
    /\ UNCHANGED <<bookings, req, ac, wh, sw, refunds, hook, limiterVars, engineVars, raceVars>>

\* free_booking_slots, second statement ("by slot_id for backward compat").
CancelFreeBySlot ==
    /\ cc.pc = "free_slot"
    /\ ReleaseSlotById(cc.slot_id)
    /\ cc' = IdleCancel
    /\ UNCHANGED <<bookings, req, ac, wh, sw, refunds, hook, limiterVars, engineVars, raceVars>>

\* --------------------------------- client cancel_booking, side by side

\* Handler h has made the gateway refund call for booking b: both outcomes
\* of create_yookassa_refund, Ok ("refunded") and Err ("manual"), are calls.
RefundRequested(h, b) ==
    cancels[h].id = b /\ cancels[h].refund_info \in {"refunded", "manual"}

\* The number of refund requests sent to the gateway for booking b.
RefundRequests(b) == Cardinality({h \in CancelIds : RefundRequested(h, b)})

\* Handler h: the SELECT of cancel_booking.
RaceCancelSelect(h) ==
    /\ cancels[h].pc = "idle"
    /\ \E u \in Clients, b \in BookingIds :
         /\ ClientCancelFinds(u, b)
         /\ cancels' = [cancels EXCEPT ![h] =
                [IdleCancel EXCEPT !.pc = "refund", !.id = b,
                      !.payment_status = bookings[b].payment_status,
                      !.payment_id = bookings[b].yookassa_payment_id,
                      !.slot_id = bookings[b].slot_id]]
    /\ UNCHANGED <<storeVars, hook, limiterVars, engineVars, del, pend>>

\* Handler h: process_refund_if_needed(state, booking, false) on the row it
\* read, the appointment being minutes_until minutes away.
RaceCancelRefundAt(h, minutes_until) ==
    /\ cancels[h].pc = "refund"
    /\ IF cancels[h].payment_status # "paid"
       THEN /\ cancels' = [cancels EXCEPT ![h].pc = "update", ![h].refund_info = "none"]
            /\ UNCHANGED refunds
       ELSE IF ~ShouldRefund(FALSE, minutes_until)
       THEN /\ cancels' = [cancels EXCEPT ![h].pc = "update", ![h].refund_info = "forfeit"]
            /\ UNCHANGED refunds
       ELSE IF cancels[h].payment_id = NULL
       THEN /\ cancels' = [cancels EXCEPT ![h].pc = "update", ![h].refund_info = "none"]
            /\ UNCHANGED refunds
       ELSE /\ refunds' = refunds \cup {cancels[h].id}
            /\ \E ok \in BOOLEAN :
                 cancels' = IF ok
                    THEN [cancels EXCEPT ![h].pc = "mark", ![h].refund_info = "refunded"]
                    ELSE [cancels EXCEPT ![h].pc = "update", ![h].refund_info = "manual"]
    /\ UNCHANGED <<is_booked, slot_booking, bookings, req, cc, ac, wh, sw, hook,
                   limiterVars, engineVars, del, pend>>

RaceCancelRefund(h) == \E m \in MinutesUntil : RaceCancelRefundAt(h, m)

\* Handler h: UPDATE bookings SET payment_status = 'refunded' WHERE id = ?
RaceCancelMarkRefunded(h) ==
    /\ cancels[h].pc = "mark"
    /\ bookings' = [bookings EXCEPT ![cancels[h].id].payment_status = "refunded"]
    /\ cancels' = [cancels EXCEPT ![h].pc = "update"]
    /\ UNCHANGED <<is_booked, slot_booking, req, cc, ac, wh, sw, refunds, hook,
                   limiterVars, engineVars, del, pend>>

\* Handler h: UPDATE bookings SET status = 'cancelled' ... WHERE id = ?
RaceCancelUpdate(h) ==
    /\ cancels[h].pc = "update"
    /\ bookings' = CancelAlways(cancels[h].id)
    /\ cancels' = [cancels EXCEPT ![h].pc = "free_booking"]
    /\ UNCHANGED <<is_booked, slot_booking, req, cc, ac, wh, sw, refunds, hook,
                   limiterVars, engineVars, del, pend>>

\* Handler h: free_booking_slots, both statements, then the response; the
\* record keeps what the handler did.
RaceCancelFree(h) ==
    /\ cancels[h].pc = "free_booking"
    /\ is_booked' = [s \in SlotIds |->
           is_booked[s] /\ slot_booking[s] # cancels[h].id /\ s # cancels[h].slot_id]
    /\ slot_booking' = [s \in SlotIds |->
           IF slot_booking[s] = cancels[h].id \/ s = cancels[h].slot_id
           THEN NULL ELSE slot_booking[s]]
    /\ cancels' = [cancels EXCEPT ![h].pc = "done"]
    /\ UNCHANGED <<bookings, req, cc, ac, wh, sw, refunds, hook,
                   limiterVars, engineVars, del, pend>>

RaceCancel == \E h \in CancelIds :
    \/ RaceCancelSelect(h) \/ RaceCancelRefund(h) \/ RaceCancelMarkRefunded(h)
    \/ RaceCancelUpdate(h) \/ RaceCancelFree(h)

\* ----------------------------------------------- operator cancel_booking

\* SELECT * FROM bookings WHERE id = ? AND status = 'confirmed'
AdminCancelFinds(b) == bookings[b].status = "confirmed"

AdminSelect ==
    /\ ac.pc = "idle"
    /\ InFlightCount < MaxInFlight
    /\ \E b \in BookingIds :
         /\ AdminCancelFinds(b)
         /\ ac' = [pc |-> "update", id |-> b, slot_id |-> bookings[b].slot_id]
    /\ UNCHANGED <<is_booked, slot_booking, bookings, req, cc, wh, sw, refunds, hook, limiterVars, engineVars, raceVars>>

AdminUpdate ==
    /\ ac.pc = "update"
    /\ bookings' = CancelAlways(ac.id)
    /\ ac' = [ac EXCEPT !.pc = "free_booking"]
    /\ UNCHANGED <<is_booked, slot_booking, req, cc, wh, sw, refunds, hook, limiterVars, engineVars, raceVars>>

AdminFreeByBooking ==
    /\ ac.pc = "free_booking"
    /\ ReleaseSlotsOfBooking(ac.id)
    /\ ac' = [ac EXCEPT !.pc = "free_slot"]
    /\ UNCHANGED <<bookings, req, cc, wh, sw, refunds, hook, limiterVars, engineVars, raceVars>>

AdminFreeBySlot ==
    /\ ac.pc = "free_slot"
    /\ ReleaseSlotById(ac.slot_id)
    /\ ac' = IdleAdmin
    /\ UNCHANGED <<bookings, req, cc, wh, sw, refunds, hook, limiterVars, engineVars, raceVars>>

\* -------------------------------------------------------- payment_webhook

\* The gateway holds a payment whose metadata.booking_id is b, the one that
\* create_yookassa_payment made for b, and the client holds its checkout URL
\* from the 200 response.  The events of such payments are what the webhook
\* receives.
PaymentCreated(b) ==
    \E r \in ReqIds :
        req[r].booking_id = b /\ req[r].pc = "done" /\ req[r].result = 200

\* event "payment.succeeded" with metadata.booking_id = b.
PaymentSucceeded(b) ==
    /\ PaymentCreated(b)
    /\ bookings' = ConfirmIfPending(b)
    /\ UNCHANGED <<is_booked, slot_booking, req, cc, ac, wh, sw, refunds, hook, limiterVars, engineVars, raceVars>>

\* event "payment.canceled", first statement.
PaymentCanceledUpdate(b) ==
    /\ wh.pc = "idle"
    /\ PaymentCreated(b)
    /\ InFlightCount < MaxInFlight
    /\ bookings' = ExpireIfPending(b)
    /\ wh' = [pc |-> "free", id |-> b]
    /\ UNCHANGED <<is_booked, slot_booking, req, cc, ac, sw, refunds, hook, limiterVars, engineVars, raceVars>>

\* event "payment.canceled", second statement.
PaymentCanceledFree ==
    /\ wh.pc = "free"
    /\ ReleaseSlotsOfBooking(wh.id)
    /\ wh' = IdleWebhook
    /\ UNCHANGED <<bookings, req, cc, ac, sw, refunds, hook, limiterVars, engineVars, raceVars>>

\* ------------------------------------------------ expire_pending_payments

\* datetime(created_at, '+15 minutes') < datetime('now', '+3 hours')
IsOverdue(b) ==
    bookings[b].status = "pending_payment" /\ bookings[b].age > PAYMENT_EXPIRY_MINUTES

\* The SELECT of the sweep; an empty result ends the pass.
SweepSelect ==
    /\ sw.pc = "idle"
    /\ InFlightCount < MaxInFlight
    /\ LET expired_ids == {b \in BookingIds : IsOverdue(b)}
       IN  /\ expired_ids # {}
           /\ sw' = [pc |-> "expire", ids |-> OrderById(expired_ids)]
    /\ UNCHANGED <<is_booked, slot_booking, bookings, req, cc, ac, wh, refunds, hook, limiterVars, engineVars, raceVars>>

SweepExpire ==
    /\ sw.pc = "expire"
    /\ bookings' = ExpireIfPending(Head(sw.ids))
    /\ sw' = [sw EXCEPT !.pc = "free"]
    /\ UNCHANGED <<is_booked, slot_booking, req, cc, ac, wh, refunds, hook, limiterVars, engineVars, raceVars>>

SweepFree ==
    /\ sw.pc = "free"
    /\ ReleaseSlotsOfBooking(Head(sw.ids))
    /\ sw' = IF Tail(sw.ids) = <<>> THEN IdleSweep
             ELSE [pc |-> "expire", ids |-> Tail(sw.ids)]
    /\ UNCHANGED <<bookings, req, cc, ac, wh, refunds, hook, limiterVars, engineVars, raceVars>>

\* ------------------------------------------------------------------- time

\* The clock advances; created_at is only ever read for bookings that are
\* pending_payment, so only their age is tracked, up to "past the timeout".
Tick ==
    /\ \E b \in BookingIds :
         bookings[b].status = "pending_payment" /\ bookings[b].age <= PAYMENT_EXPIRY_MINUTES
    /\ bookings' = [b \in BookingIds |->
         IF bookings[b].status = "pending_payment" /\ bookings[b].age <= PAYMENT_EXPIRY_MINUTES
         THEN [bookings[b] EXCEPT !.age = @ + TickMinutes]
         ELSE bookings[b]]
    /\ UNCHANGED <<is_booked, slot_booking, req, cc, ac, wh, sw, refunds, hook, limiterVars, engineVars, raceVars>>

\* ---------------------------------------------------------- specification

Create == \E r \in ReqIds :
    \/ CreateLoad(r) \/ CreateInsert(r) \/ CreateClaim(r) \/ CreatePay(r)
    \/ CreateSave(r) \/ CreateRollbackBooking(r) \/ CreateRollbackSlot(r)

ClientCancel ==
    \/ CancelSelect \/ CancelRefund \/ CancelMarkRefunded \/ CancelUpdate
    \/ CancelFreeByBooking \/ CancelFreeBySlot

AdminCancel == AdminSelect \/ AdminUpdate \/ AdminFreeByBooking \/ AdminFreeBySlot

Webhook ==
    \/ \E b \in BookingIds : PaymentSucceeded(b) \/ PaymentCanceledUpdate(b)
    \/ PaymentCanceledFree

Sweep == SweepSelect \/ SweepExpire \/ SweepFree

Next == Create \/ ClientCancel \/ AdminCancel \/ Webhook \/ Sweep \/ Tick

Spec == Init /\ [][Next]_vars

\* One client creates a booking and pays it, and cancel requests of clients
\* run side by side, each statement by statement.
CreateOf(r) ==
    \/ CreateLoad(r) \/ CreateInsert(r) \/ CreateClaim(r) \/ CreatePay(r)
    \/ CreateSave(r) \/ CreateRollbackBooking(r) \/ CreateRollbackSlot(r)

Paid == \E b \in BookingIds : PaymentSucceeded(b)

RefundNext == CreateOf(1) \/ Paid \/ RaceCancel

RefundSpec == Init /\ [][RefundNext]_vars

TypeOK ==
    /\ is_booked \in [SlotIds -> BOOLEAN]
    /\ slot_booking \in [SlotIds -> {NULL} \cup BookingIds]
    /\ \A b \in BookingIds :
         /\ bookings[b].status \in {"pending_payment", "confirmed", "cancelled", "expired"}
         /\ bookings[b].payment_status \in {"none", "pending", "paid", "refunded"}


\* The part of the system that is left when no payment webhook ever arrives:
\* no booking is ever confirmed, so the operator cancel never finds a row.
\* Tasks run to completion and the sweep timer keeps firing.
CreateStep(r) ==
    \/ CreateInsert(r) \/ CreateClaim(r) \/ CreatePay(r) \/ CreateSave(r)
    \/ CreateRollbackBooking(r) \/ CreateRollbackSlot(r)

\* The statements of a running cancel_booking when no booking is paid: the
\* UPDATE marking a refund (CancelMarkRefunded) needs payment_status = 'paid',
\* which only payment.succeeded writes.
CancelStep ==
    \/ CancelRefund \/ CancelUpdate
    \/ CancelFreeByBooking \/ CancelFreeBySlot

ExpiryNext == Create \/ CancelSelect \/ CancelStep \/ Sweep \/ Tick

ExpirySpec ==
    /\ Init /\ [][ExpiryNext]_vars
    /\ WF_vars(Tick) /\ WF_vars(Sweep) /\ WF_vars(CancelStep)
    /\ \A r \in ReqIds : WF_vars(CreateStep(r))

\* ------------------------------------------- payment_webhook, whole handler
\* One delivery is one step: the dispatch on metadata.booking_id and on the
\* event type, the statements of the branch (each may fail in the store) and
\* the status code that is returned.

\* Event types the gateway sends.
Events == {"payment.succeeded", "payment.canceled", "payment.waiting_for_capture"}

HookBranchByPrefix(event, id) ==
    IF id = NULL THEN "ack"
    ELSE IF event = "payment.succeeded" THEN "succeeded"
    ELSE IF event \in {"payment.canceled", "payment.waiting_for_capture"} THEN "canceled"
    ELSE "ack"

\* The branch the handler takes: no booking id in the metadata returns at
\* once; otherwise the match on the event string.
HookBranch(event, id) ==
    IF id = NULL THEN "ack"
    ELSE IF event = "payment.succeeded" THEN "succeeded"
    ELSE IF event = "payment.canceled" THEN "canceled"
    ELSE "ack"

\* The booking ids that deliveries carry: none, or the id of a booking whose
\* payment the gateway holds.
HookIds == {NULL} \cup {b \in BookingIds : PaymentCreated(b)}

HookFrame == UNCHANGED <<req, cc, ac, wh, sw, refunds, limiterVars, engineVars, raceVars>>

\* Missing booking_id, or an event type that is not handled: 200, nothing done.
HookAck(event, id) ==
    /\ id \in HookIds
    /\ HookBranch(event, id) = "ack"
    /\ hook' = [event |-> event, booking_id |-> id, status |-> 200,
                notified |-> FALSE]
    /\ UNCHANGED <<bookings, is_booked, slot_booking>>
    /\ HookFrame

\* payment.succeeded: the guarded UPDATE; a store error answers 500 at once,
\* otherwise the booking is fetched and notify_admin is called, whatever the
\* UPDATE changed.
HookSucceeded(event, id, db_ok) ==
    /\ id \in HookIds
    /\ HookBranch(event, id) = "succeeded"
    /\ bookings' = IF db_ok THEN ConfirmIfPending(id) ELSE bookings
    /\ hook' = [event |-> event, booking_id |-> id,
                status |-> IF db_ok THEN 200 ELSE 500, notified |-> db_ok]
    /\ UNCHANGED <<is_booked, slot_booking>>
    /\ HookFrame

\* payment.canceled: the guarded UPDATE, then the release of the slots; a
\* store error of either statement is logged only.
HookCanceled(event, id, db_ok, slots_ok) ==
    /\ id \in HookIds
    /\ HookBranch(event, id) = "canceled"
    /\ bookings' = IF db_ok THEN ExpireIfPending(id) ELSE bookings
    /\ IF slots_ok THEN ReleaseSlotsOfBooking(id)
                   ELSE UNCHANGED <<is_booked, slot_booking>>
    /\ hook' = [event |-> event, booking_id |-> id, status |-> 200,
                notified |-> FALSE]
    /\ HookFrame

\* A delivery with the given event type and metadata booking id.
HookDeliver(event, id) ==
    \/ HookAck(event, id)
    \/ \E db_ok \in BOOLEAN : HookSucceeded(event, id, db_ok)
    \/ \E db_ok \in BOOLEAN, slots_ok \in BOOLEAN : HookCanceled(event, id, db_ok, slots_ok)

HookNext ==
    \/ Create
    \/ \E event \in Events, id \in {NULL} \cup (1..MaxRequests) : HookDeliver(event, id)

HookSpec == Init /\ [][HookNext]_vars

\* ------------------------------------------------------------ RateLimiter


\* RateLimitConfig of a tier.
MaxRequestsOf(tier) == IF tier = "booking" THEN BookingMaxRequests ELSE AuthMaxRequests
WindowOf(tier) ==
    (IF tier = "booking" THEN BookingWindowSecs ELSE AuthWindowSecs) * UnitsPerSec

Max2(a, b) == IF a > b THEN a ELSE b

RetainedInclusive(timestamps, window_start) ==
    SelectSeq(timestamps, LAMBDA t : t >= window_start)

\* entry.retain(|t| *t > window_start)
Retained(timestamps, window_start) ==
    SelectSeq(timestamps, LAMBDA t : t > window_start)

RetryAfterUnraised(oldest, window, now) ==
    Max2(oldest + window - now, 0) \div UnitsPerSec

\* (oldest + window).saturating_duration_since(now).as_secs().max(1)
RetryAfter(oldest, window, now) ==
    Max2(Max2(oldest + window - now, 0) \div UnitsPerSec, 1)

\* too_many_requests: status 429 with the Retry-After header.
TooManyRequests(retry_after) == [status |-> 429, retry_after_header |-> retry_after]

\* The request is passed on to the route's handler (next.run).
PassedOn == [status |-> 0, retry_after_header |-> NULL]

KeyOfIpOnly(tier, ip) == <<"auth", ip>>

\* The timestamp list of a request: the tier's map, then the ip's entry.
KeyOf(tier, ip) == <<tier, ip>>

\* RateLimiter::check(tier, ip) as called by the tier's middleware, atomic
\* under the entry's lock: evict, count, then reject with retry_after (429)
\* or record now and pass the request on.
Check(tier, ip) ==
    /\ Len(checks) < MaxChecks
    /\ LET key == KeyOf(tier, ip)
           window_start == clock - WindowOf(tier)
           entry == Retained(stamps[key], window_start)
       IN  IF Len(entry) >= MaxRequestsOf(tier)
           THEN LET retry_after == RetryAfter(entry[1], WindowOf(tier), clock)
                IN  /\ stamps' = [stamps EXCEPT ![key] = entry]
                    /\ checks' = Append(checks,
                           [tier |-> tier, ip |-> ip, at |-> clock, ok |-> FALSE,
                            retry_after |-> retry_after,
                            response |-> TooManyRequests(retry_after)])
           ELSE /\ stamps' = [stamps EXCEPT ![key] = Append(entry, clock)]
                /\ checks' = Append(checks,
                       [tier |-> tier, ip |-> ip, at |-> clock, ok |-> TRUE,
                        retry_after |-> 0, response |-> PassedOn])
    /\ UNCHANGED <<clock, hook, storeVars, engineVars, raceVars>>

CleanupCutoffHalfWindow(tier) == WindowOf(tier) \div 2

\* let cutoff = config.window * 2
CleanupCutoff(tier) == 2 * WindowOf(tier)

\* RateLimiter::cleanup: per entry keep the timestamps younger than 2 x
\* window; an entry left empty is removed (an absent entry is the empty list).
Cleanup ==
    /\ stamps' = [key \in Keys |->
                    SelectSeq(stamps[key], LAMBDA t : clock - t < CleanupCutoff(key[1]))]
    /\ UNCHANGED <<clock, checks, hook, storeVars, engineVars, raceVars>>

\* Time passes.
LimiterTick ==
    /\ clock < MaxClock
    /\ clock' = clock + 1
    /\ UNCHANGED <<stamps, checks, hook, storeVars, engineVars, raceVars>>

RateNext ==
    \/ \E tier \in Tiers, ip \in Ips : Check(tier, ip)
    \/ Cleanup
    \/ LimiterTick

RateSpec == Init /\ [][RateNext]_vars

\* RateLimiter::check in the two steps that other threads can separate:
\* call c reads Instant::now() and computes window_start, without any lock.
CheckNow(c, tier, ip) ==
    /\ pend[c].pc = "idle"
    /\ Len(checks) + Cardinality({o \in CheckIds : pend[o].pc # "idle"}) < MaxChecks
    /\ pend' = [pend EXCEPT ![c] = [pc |-> "entry", tier |-> tier, ip |-> ip,
                                    now |-> clock]]
    /\ UNCHANGED <<clock, stamps, checks, hook, storeVars, engineVars, del, cancels>>

\* Call c takes the entry's lock (ip_map.entry(ip)) and, holding it to its
\* return, evicts, counts and rejects or records, with the now it read.
CheckLocked(c) ==
    /\ pend[c].pc = "entry"
    /\ LET tier == pend[c].tier
           now == pend[c].now
           key == KeyOf(tier, pend[c].ip)
           window_start == now - WindowOf(tier)
           entry == Retained(stamps[key], window_start)
       IN  IF Len(entry) >= MaxRequestsOf(tier)
           THEN LET retry_after == RetryAfter(entry[1], WindowOf(tier), now)
                IN  /\ stamps' = [stamps EXCEPT ![key] = entry]
                    /\ checks' = Append(checks,
                           [tier |-> tier, ip |-> pend[c].ip, at |-> now, ok |-> FALSE,
                            retry_after |-> retry_after,
                            response |-> TooManyRequests(retry_after)])
           ELSE /\ stamps' = [stamps EXCEPT ![key] = Append(entry, now)]
                /\ checks' = Append(checks,
                       [tier |-> tier, ip |-> pend[c].ip, at |-> now, ok |-> TRUE,
                        retry_after |-> 0, response |-> PassedOn])
    /\ pend' = [pend EXCEPT ![c] = NoCheck]
    /\ UNCHANGED <<clock, hook, storeVars, engineVars, del, cancels>>

\* Requests of one client on the booking tier, served by threads that run
\* RateLimiter::check side by side, while time passes.
LockNext ==
    \/ \E c \in CheckIds : CheckNow(c, "booking", 1)
    \/ \E c \in CheckIds : CheckLocked(c)
    \/ LimiterTick

LockSpec == Init /\ [][LockNext]_vars

\* ------------------------------------------------------------------ router
\* One route of each of the five groups that main merges into the app (two
\* of the group without a layer), and the tier of the rate-limit layer of
\* its group.

Routes == {"health", "payment_webhook", "available_times", "create_booking",
           "cancel_booking", "admin_cancel_booking"}

RouteTier(route) ==
    CASE route \in {"health", "payment_webhook"} -> "none"
      [] route = "available_times" -> "public"
      [] route = "create_booking" -> "booking"
      [] route = "cancel_booking" -> "auth"
      [] route = "admin_cancel_booking" -> "admin"

\* A request on a route whose group has a rate-limit layer: the middleware
\* calls check and passes the request on when it is admitted.
RouteLimited(route, ip) ==
    /\ RouteTier(route) # "none"
    /\ Check(RouteTier(route), ip)

\* A request on a route of the group without a layer: the handler runs, no
\* check is made.
RouteUnlimited(route, ip) ==
    /\ RouteTier(route) = "none"
    /\ Len(checks) < MaxChecks
    /\ checks' = Append(checks,
           [route |-> route, tier |-> "none", ip |-> ip, at |-> clock, ok |-> FALSE,
            retry_after |-> 0, response |-> PassedOn])
    /\ UNCHANGED <<clock, stamps, hook, storeVars, engineVars, raceVars>>

RouteNext ==
    \E route \in Routes, ip \in Ips : RouteLimited(route, ip) \/ RouteUnlimited(route, ip)

RouteSpec == Init /\ [][RouteNext]_vars

\* ---------------------------------------------------- availability engine

\* The slot lists a date can have: each of the first MaxHours hours of the
\* day has no slot, a free slot or a booked slot; rows come in
\* ORDER BY start_time ASC order.
Hours == 1..MaxHours
HourStates == {"absent", "free", "booked"}
SlotRow(h, state) ==
    [id |-> h, start_time |-> SlotStart(h), end_time |-> SlotEnd(h),
     is_booked |-> (state = "booked")]
SlotListOf(f) ==
    SelectSeq([h \in Hours |-> SlotRow(h, f[h])], LAMBDA row : f[row.id] # "absent")
SlotLists == {SlotListOf(f) : f \in [Hours -> HourStates]}
Durations == 1..MaxDuration
Needed == 1..MaxNeeded
DaysUntil == 0..MaxDaysUntil

RunFreeIgnoringGaps(slots, i, needed) ==
    \A j \in 0..(needed - 1) : ~slots[i + j].is_booked

\* has_consecutive_free_slots, inner loop: slots i..i+needed-1 (1-based) are
\* free and each starts where the one before it ends.
RunFree(slots, i, needed) ==
    \A j \in 0..(needed - 1) :
        /\ ~slots[i + j].is_booked
        /\ (j > 0 => slots[i + j - 1].end_time = slots[i + j].start_time)

\* has_consecutive_free_slots, outer loop from index i: a booked slot is
\* skipped (continue), a start too close to the end of the list stops the
\* scan (break), the first run that is ok returns true.
RECURSIVE HasConsecutiveFrom(_, _, _)
HasConsecutiveFrom(slots, needed, i) ==
    IF i > Len(slots) THEN FALSE
    ELSE IF slots[i].is_booked THEN HasConsecutiveFrom(slots, needed, i + 1)
    ELSE IF (i - 1) + needed > Len(slots) THEN FALSE
    ELSE IF RunFree(slots, i, needed) THEN TRUE
    ELSE HasConsecutiveFrom(slots, needed, i + 1)

HasConsecutiveFreeSlots(slots, needed) == HasConsecutiveFrom(slots, needed, 1)

\* find_bookable_blocks, inner loop.
BlockValid(slots, i, slots_needed) ==
    \A j \in 0..(slots_needed - 1) :
        /\ ~slots[i + j].is_booked
        /\ (j > 0 => slots[i + j - 1].end_time = slots[i + j].start_time)

BlockEndOfFirstSlot(slots, i, slots_needed) == slots[i].end_time

\* find_bookable_blocks: block_end = slots[i + slots_needed - 1].end_time.
BlockEnd(slots, i, slots_needed) == slots[i + slots_needed - 1].end_time

IsAfterBooked(block_start, block_end, all_slots) ==
    \E k \in 1..Len(all_slots) :
        all_slots[k].is_booked /\ block_start = all_slots[k].end_time

\* is_adjacent_to_booked.
IsAdjacentToBooked(block_start, block_end, all_slots) ==
    \E k \in 1..Len(all_slots) :
        /\ all_slots[k].is_booked
        /\ (block_start = all_slots[k].end_time \/ block_end = all_slots[k].start_time)

\* find_bookable_blocks, outer loop from index i.
RECURSIVE FindBlocksFrom(_, _, _, _)
FindBlocksFrom(slots, slots_needed, is_tight, i) ==
    IF i > Len(slots) THEN <<>>
    ELSE
        LET rest == FindBlocksFrom(slots, slots_needed, is_tight, i + 1)
            has_bookings == \E k \in 1..Len(slots) : slots[k].is_booked
            block == [start_time |-> slots[i].start_time,
                      end_time |-> BlockEnd(slots, i, slots_needed)]
        IN  IF slots[i].is_booked \/ (i - 1) + slots_needed > Len(slots) THEN rest
            ELSE IF ~BlockValid(slots, i, slots_needed) THEN rest
            ELSE IF is_tight /\ has_bookings
                 THEN IF IsAdjacentToBooked(block.start_time, block.end_time, slots)
                      THEN <<block>> \o rest
                      ELSE rest
                 ELSE <<block>> \o rest

FindBookableBlocks(slots, slots_needed, is_tight) ==
    FindBlocksFrom(slots, slots_needed, is_tight, 1)

\* available_times: no active service with the id gives mode "free" and no
\* times; otherwise the blocks of the date and the label of is_tight.
AvailableTimes(service_id, slots, days_until) ==
    IF service_id \notin ServiceIds
    THEN [mode |-> "free", times |-> <<>>]
    ELSE LET slots_needed == SlotsNeededForDuration(DurationMin(service_id))
             is_tight == days_until <= TIGHT_MODE_DAYS
         IN  [mode |-> IF is_tight THEN "tight" ELSE "free",
              times |-> FindBookableBlocks(slots, slots_needed, is_tight)]

\* One evaluation at a time: a call records its arguments and its result,
\* the return clears the record.
CalcFrame == UNCHANGED <<storeVars, hook, limiterVars, day, raceVars>>

CallSlotsNeeded(duration_min) ==
    /\ calc = NoCall
    /\ calc' = [fn |-> "slots_needed_for_duration", duration_min |-> duration_min,
                result |-> SlotsNeededForDuration(duration_min)]
    /\ CalcFrame

CallHasConsecutive(slots, needed) ==
    /\ calc = NoCall
    /\ calc' = [fn |-> "has_consecutive_free_slots", slots |-> slots,
                needed |-> needed,
                result |-> HasConsecutiveFreeSlots(slots, needed)]
    /\ CalcFrame

CallFindBlocks(slots, slots_needed, is_tight) ==
    /\ calc = NoCall
    /\ calc' = [fn |-> "find_bookable_blocks", slots |-> slots,
                needed |-> slots_needed, is_tight |-> is_tight,
                result |-> FindBookableBlocks(slots, slots_needed, is_tight)]
    /\ CalcFrame

CallAvailableTimes(service_id, slots, days_until) ==
    /\ calc = NoCall
    /\ LET response == AvailableTimes(service_id, slots, days_until)
       IN  calc' = [fn |-> "available_times", service_id |-> service_id,
                    slots |-> slots, days_until |-> days_until,
                    mode |-> response.mode, times |-> response.times]
    /\ CalcFrame

\* available_dates_for_service's test of a date and available_times' list
\* for the same date and service, on the same rows, the date being far
\* enough for free mode.
CallDateAndTimes(slots, needed) ==
    /\ calc = NoCall
    /\ calc' = [fn |-> "date_and_times", slots |-> slots, needed |-> needed,
                available |-> HasConsecutiveFreeSlots(slots, needed),
                times |-> FindBookableBlocks(slots, needed, FALSE)]
    /\ CalcFrame

\* Durations of active services: the catalog's 120, 20 and 60 minutes, and
\* 90 minutes for a service the operator has added.
ServiceDurations == {20, 60, 90, 120}

\* create_booking up to its checks, for a service of duration_min minutes at
\* start_time on the given rows of the date: end_time, the slots of
\* [start_time, end_time], 404 when fewer than slots_needed, 409 when one
\* is booked, otherwise the booking is inserted with this end_time.
CreateBookingChecks(duration_min, slots, start_time) ==
    LET end_time == AddMinutesToTime(start_time, duration_min)
        found == SelectSeq(slots, LAMBDA row :
                     row.start_time >= start_time /\ row.end_time <= end_time)
        slots_needed == SlotsNeededForDuration(duration_min)
    IN  [status |-> IF Len(found) < slots_needed THEN 404
                    ELSE IF \E k \in 1..Len(found) : found[k].is_booked THEN 409
                    ELSE 200,
         found |-> Len(found),
         end_time |-> end_time]

\* available_times' blocks for a service, and for each of them the
\* create_booking that a client sends for its start on unchanged rows.
CallBookBlocks(duration_min, slots) ==
    /\ calc = NoCall
    /\ LET times == FindBookableBlocks(slots, SlotsNeededForDuration(duration_min), FALSE)
       IN  calc' = [fn |-> "book_blocks", duration_min |-> duration_min,
                    slots |-> slots, times |-> times,
                    bookings |-> [n \in 1..Len(times) |->
                        CreateBookingChecks(duration_min, slots, times[n].start_time)]]
    /\ CalcFrame

CalcReturn ==
    /\ calc # NoCall
    /\ calc' = NoCall
    /\ CalcFrame

CalcNext ==
    \/ \E duration_min \in Durations : CallSlotsNeeded(duration_min)
    \/ \E slots \in SlotLists, needed \in Needed : CallHasConsecutive(slots, needed)
    \/ \E slots \in SlotLists, needed \in Needed, is_tight \in BOOLEAN :
           CallFindBlocks(slots, needed, is_tight)
    \/ \E service_id \in ServiceIds \cup {NULL}, slots \in SlotLists,
          days_until \in DaysUntil :
           CallAvailableTimes(service_id, slots, days_until)
    \/ \E slots \in SlotLists, needed \in Needed : CallDateAndTimes(slots, needed)
    \/ \E duration_min \in ServiceDurations, slots \in SlotLists :
           CallBookBlocks(duration_min, slots)
    \/ CalcReturn

CalcSpec == Init /\ [][CalcNext]_vars

\* --------------------------------------------------- slot administration

\* The rows of available_slots for one date: day is a set of records
\* [id, start_time, end_time, is_booked, booking_id].
OpenHours == OPEN_DAY_FIRST_HOUR..(OPEN_DAY_END_HOUR - 1)
DaySlotIds == 1..MaxSlotId
DayBookingIds == 1..MaxDayBooked
DayFrame == UNCHANGED <<storeVars, hook, limiterVars, raceVars>>

\* The row id of the next INSERT.
NextSlotId(rows) ==
    IF rows = {} THEN 1
    ELSE (CHOOSE m \in {r.id : r \in rows} : \A r \in rows : r.id <= m) + 1

\* INSERT INTO available_slots (date, start_time, end_time): a free slot.
InsertSlot(rows, start_time, end_time) ==
    rows \cup {[id |-> NextSlotId(rows), start_time |-> start_time,
                end_time |-> end_time, is_booked |-> FALSE, booking_id |-> NULL]}

SlotNeverExists(rows, start_time) == FALSE

\* SELECT COUNT(*) > 0 FROM available_slots WHERE date = ? AND start_time = ?
SlotExists(rows, start_time) == \E r \in rows : r.start_time = start_time

\* open_day, the loop from the given hour on: a start time that has a slot
\* is skipped, the others get a new one-hour slot.
RECURSIVE OpenDayFrom(_, _)
OpenDayFrom(rows, hour) ==
    IF hour >= OPEN_DAY_END_HOUR THEN rows
    ELSE OpenDayFrom(IF SlotExists(rows, hour * 100)
                     THEN rows
                     ELSE InsertSlot(rows, hour * 100, (hour + 1) * 100),
                     hour + 1)

OpenDayRows(rows) == OpenDayFrom(rows, OPEN_DAY_FIRST_HOUR)

\* POST /api/admin/openday for the date. calc keeps the last operator call
\* on the slots of the date and its status; calls counts the open_day calls
\* made in a row.
OpenDay ==
    /\ \A r \in OpenDayRows(day) : r.id \in DaySlotIds
    /\ day' = OpenDayRows(day)
    /\ calc' = [fn |-> "open_day", status |-> 200,
                calls |-> IF calc.fn = "open_day" THEN 2 ELSE 1]
    /\ DayFrame

\* DELETE /api/admin/slots/:id: 404 without the row, 409 when it is booked,
\* otherwise the row is deleted.
DeleteSlot(id) ==
    /\ IF ~\E r \in day : r.id = id
       THEN /\ calc' = [fn |-> "delete_slot", status |-> 404]
            /\ UNCHANGED day
       ELSE LET slot == CHOOSE r \in day : r.id = id
            IN  IF slot.is_booked
                THEN /\ calc' = [fn |-> "delete_slot", status |-> 409]
                     /\ UNCHANGED day
                ELSE /\ calc' = [fn |-> "delete_slot", status |-> 200]
                     /\ day' = day \ {slot}
    /\ DayFrame

\* create_booking's claim of one slot of the date:
\* UPDATE available_slots SET is_booked = 1, booking_id = ?
\*   WHERE id = ? AND is_booked = 0.
DayClaim(id, booking_id) ==
    /\ Cardinality({r \in day : r.is_booked}) < MaxDayBooked
    /\ \E slot \in day :
         /\ slot.id = id
         /\ ~slot.is_booked
         /\ day' = (day \ {slot}) \cup
                       {[slot EXCEPT !.is_booked = TRUE, !.booking_id = booking_id]}
    /\ calc' = NoCall
    /\ DayFrame

\* UPDATE available_slots SET is_booked = 0, booking_id = NULL
\*   WHERE booking_id = ?.
DayRelease(booking_id) ==
    /\ \E r \in day : r.booking_id = booking_id
    /\ day' = {IF r.booking_id = booking_id
               THEN [r EXCEPT !.is_booked = FALSE, !.booking_id = NULL]
               ELSE r : r \in day}
    /\ calc' = NoCall
    /\ DayFrame

\* delete_slot, first statement: SELECT ... WHERE id = ?; 404 without the
\* row, 409 when the row read is booked, otherwise on to the DELETE.
DelSelect(id) ==
    /\ del.pc = "idle"
    /\ IF ~\E r \in day : r.id = id
       THEN /\ calc' = [fn |-> "delete_slot", status |-> 404]
            /\ UNCHANGED del
       ELSE LET slot == CHOOSE r \in day : r.id = id
            IN  IF slot.is_booked
                THEN /\ calc' = [fn |-> "delete_slot", status |-> 409]
                     /\ UNCHANGED del
                ELSE /\ del' = [pc |-> "delete", id |-> id]
                     /\ UNCHANGED calc
    /\ UNCHANGED <<day, storeVars, hook, limiterVars, cancels, pend>>

\* delete_slot, second statement: DELETE FROM available_slots WHERE id = ?
\* and the answer 200.
DelDelete ==
    /\ del.pc = "delete"
    /\ day' = {r \in day : r.id # del.id}
    /\ del' = IdleDelete
    /\ calc' = [fn |-> "delete_slot", status |-> 200]
    /\ UNCHANGED <<storeVars, hook, limiterVars, cancels, pend>>

\* open_day on a date that has no slot yet.
OpenDayOnce ==
    /\ day = {}
    /\ OpenDay

\* The operator opens the date once; delete_slot requests and the slot
\* claims and releases of bookings then run statement by statement.
SlotRaceNext ==
    \/ OpenDayOnce
    \/ \E id \in DaySlotIds : DelSelect(id)
    \/ DelDelete
    \/ \E id \in DaySlotIds, booking_id \in DayBookingIds : DayClaim(id, booking_id)
    \/ \E booking_id \in DayBookingIds : DayRelease(booking_id)

SlotRaceSpec == Init /\ [][SlotRaceNext]_vars

DayNext ==
    \/ OpenDay
    \/ \E id \in DaySlotIds : DeleteSlot(id)
    \/ \E id \in DaySlotIds, booking_id \in DayBookingIds : DayClaim(id, booking_id)
    \/ \E booking_id \in DayBookingIds : DayRelease(booking_id)

DaySpec == Init /\ [][DayNext]_vars

\* ---------------------------------------------------------------- claims

Active(b) == bookings[b].status \in {"pending_payment", "confirmed"}
Terminal(b) == bookings[b].status \in {"cancelled", "expired"}

\* The slots whose booking_id is b.
OwnedSlots(b) == {s \in SlotIds : slot_booking[s] = b}

\* The slots that lie in the booking's [start_time, end_time).
SlotsInRange(b) ==
    {s \in SlotIds : SlotStart(s) >= bookings[b].start_time
                     /\ SlotEnd(s) <= bookings[b].end_time}

\* The create_booking call that inserted b has returned.
CreateReturned(b) ==
    \A r \in ReqIds : req[r].booking_id = b => req[r].pc = "done"

\* S is one gap-free run of n slots that spans exactly [from, to).
IsRun(S, n, from, to) ==
    LET q == OrderByStart(S)
    IN  /\ Len(q) = n
        /\ n > 0 => (SlotStart(q[1]) = from /\ SlotEnd(q[n]) = to)
        /\ \A k \in 1..(Len(q) - 1) : SlotEnd(q[k]) = SlotStart(q[k + 1])

\* C1: two createBooking requests that race for the same single free slot
\* (neither hit by a gateway failure) end with exactly one success (200) and
\* one conflict (409).
C1_ExactlyOneWinsTheSlot ==
    \A r1, r2 \in ReqIds :
        ( /\ r1 # r2
          /\ req[r1].pc = "done" /\ req[r2].pc = "done"
          /\ req[r1].raced \/ req[r2].raced
          /\ Len(req[r1].slots) = 1 /\ req[r1].slots = req[r2].slots
          /\ req[r1].result # 500 /\ req[r2].result # 500 )
        => {req[r1].result, req[r2].result} = {200, 409}

\* C2: after any interleaving, every booking that is pending_payment or
\* confirmed (and whose createBooking has returned) owns exactly one gap-free
\* run of ceil(duration/60) slots that covers its [start, end).
C2_OwnedSlotsFormTheRun ==
    \A b \in BookingIds :
        (Active(b) /\ CreateReturned(b)) =>
            IsRun(OwnedSlots(b),
                  SlotsNeededForDuration(DurationMin(bookings[b].service_id)),
                  bookings[b].start_time, bookings[b].end_time)

\* C3: for every slot, is_booked holds exactly when booking_id is set.
C3_BookedIffOwned ==
    \A s \in SlotIds : is_booked[s] <=> (slot_booking[s] # NULL)

\* C3 witness: a slot was claimed and released again (its booking is over)
\* while another slot is held.
C3_Witness ==
    \E b \in BookingIds, s \in SlotIds, t \in SlotIds :
        /\ Terminal(b) /\ s \in SlotsInRange(b) /\ ~is_booked[s]
        /\ is_booked[t] /\ slot_booking[t] # NULL

\* C4: no two distinct bookings that are both pending_payment or confirmed
\* (and handed to their callers) have ranges that contain the same slot.
C4_NoDoubleBooking ==
    \A b1, b2 \in BookingIds :
        ( /\ b1 # b2 /\ Active(b1) /\ Active(b2)
          /\ CreateReturned(b1) /\ CreateReturned(b2)
          /\ req[CHOOSE r \in ReqIds : req[r].booking_id = b1].result = 200
          /\ req[CHOOSE r \in ReqIds : req[r].booking_id = b2].result = 200 )
        => SlotsInRange(b1) \cap SlotsInRange(b2) = {}

\* C5: when payment.succeeded deliveries and sweep passes interleave on one
\* booking, the sweep never releases a slot of a booking that is confirmed.
C5_SweepSparesConfirmed ==
    [][ \A b \in BookingIds :
          (sw.pc = "free" /\ sw' # sw /\ bookings'[b].status = "confirmed")
          => OwnedSlots(b)' = OwnedSlots(b) ]_vars

\* C6: the first payment.succeeded delivery for a pending_payment booking
\* sets it confirmed / paid; a delivery for a booking that is no longer
\* pending_payment changes no booking and no slot.
C6_SucceededOnceOnly ==
    [][ \A b \in BookingIds :
          PaymentSucceeded(b) =>
            IF bookings[b].status = "pending_payment"
            THEN /\ bookings'[b].status = "confirmed"
                 /\ bookings'[b].payment_status = "paid"
                 /\ \A o \in BookingIds \ {b} : bookings'[o] = bookings[o]
                 /\ UNCHANGED <<is_booked, slot_booking>>
            ELSE UNCHANGED <<bookings, is_booked, slot_booking>> ]_vars

\* C6 witness: a booking that the first delivery has confirmed.
C6_Witness ==
    \E b \in BookingIds :
        bookings[b].status = "confirmed" /\ bookings[b].payment_status = "paid"

\* C7: a payment.canceled delivery for a booking that is confirmed leaves the
\* booking and every slot unchanged.
C7_CanceledSparesConfirmed ==
    [][ (wh.pc = "free" /\ wh'.pc = "idle" /\ bookings[wh.id].status = "confirmed")
        => UNCHANGED <<bookings, is_booked, slot_booking>> ]_vars

\* C8: with no webhook, a sweep pass picks exactly the pending_payment
\* bookings older than the timeout, sets each to expired / none and leaves no
\* slot owned by it; and no booking stays pending_payment forever.
C8_SweepExpiresAbandoned ==
    /\ [][ (sw.pc = "idle" /\ sw'.pc = "expire") =>
             Range(sw'.ids) = {b \in BookingIds :
                 /\ bookings[b].status = "pending_payment"
                 /\ bookings[b].age > PAYMENT_EXPIRY_MINUTES} ]_vars
    /\ [][ (sw.pc = "expire" /\ sw'.pc = "free"
            /\ bookings[Head(sw.ids)].status = "pending_payment") =>
             /\ bookings'[Head(sw.ids)].status = "expired"
             /\ bookings'[Head(sw.ids)].payment_status = "none" ]_vars
    /\ [][ (sw.pc = "free" /\ sw' # sw) =>
             \A s \in SlotIds :
                 slot_booking[s] = Head(sw.ids) =>
                     (~is_booked'[s] /\ slot_booking'[s] = NULL) ]_vars
    /\ \A b \in 1..MaxRequests :
         (b \in BookingIds /\ bookings[b].status = "pending_payment")
         ~> (b \in BookingIds /\ bookings[b].status # "pending_payment")

\* C8 witness: the sweep has expired an abandoned booking and released the
\* slots it held.
C8_Witness ==
    \E b \in BookingIds :
        /\ sw.pc = "idle" /\ CreateReturned(b)
        /\ \E r \in ReqIds : req[r].booking_id = b /\ req[r].result = 200
        /\ bookings[b].status = "expired" /\ bookings[b].payment_status = "none"
        /\ OwnedSlots(b) = {}
        /\ \A s \in SlotsInRange(b) : ~is_booked[s]

\* C9: once a booking is cancelled or expired, no step changes its status.
C9_TerminalIsFinal ==
    [][ \A b \in BookingIds :
          Terminal(b) => bookings'[b].status = bookings[b].status ]_vars

\* C10: when the operator cancels a booking whose payment status is paid, a
\* gateway refund has been requested for it by the time it is set cancelled.
C10_OperatorCancelRefunds ==
    [][ (ac.pc = "update" /\ ac'.pc = "free_booking"
         /\ bookings[ac.id].payment_status = "paid")
        => ac.id \in refunds' ]_vars

\* C11: a client cancel of a paid booking requests a gateway refund exactly
\* when the appointment starts more than 24 hours (counted in minutes) after
\* the cancel: 24h30m ahead refunds, 24h00m ahead forfeits.
C11_RefundIffMoreThan24h ==
    [][ \A m \in MinutesUntil :
          (CancelRefundAt(m) /\ cc.payment_status = "paid" /\ cc.payment_id # NULL)
          => ((cc.id \in refunds') <=> (m > REFUND_HOURS * 60)) ]_vars

C13_CancelledOwnsNothing ==
    [][ \A b \in BookingIds :
          ( \/ (cc.pc = "free_slot" /\ cc.id = b /\ cc'.pc = "idle")
            \/ (ac.pc = "free_slot" /\ ac.id = b /\ ac'.pc = "idle") )
          => (bookings'[b].status = "cancelled" /\ OwnedSlots(b)' = {}) ]_vars

\* C14: cancelBooking finds (accepts) a booking exactly when it is confirmed
\* or pending_payment and, for a client, belongs to that client; the operator
\* is accepted for both statuses.  A booking that is not found is a 404 and
\* no step.
C14_CancelAcceptedIffActive ==
    \A b \in BookingIds :
        /\ \A u \in Clients :
             ClientCancelFinds(u, b) <=> (Active(b) /\ bookings[b].client_tg_id = u)
        /\ AdminCancelFinds(b) <=> Active(b)

\* Minutes since midnight of a time HH:MM.
MinuteOfDay(t) == (t \div 100) * 60 + (t % 100)

\* The slots that lie within [st, st + d minutes).
SlotsWithin(st, d) ==
    {s \in SlotIds : /\ MinuteOfDay(SlotStart(s)) >= MinuteOfDay(st)
                     /\ MinuteOfDay(SlotEnd(s)) <= MinuteOfDay(st) + d}

C16_GatewayFailureRollsBack ==
    [][ \A r \in ReqIds, b \in BookingIds :
          (req[r].pc = "rollback_slots" /\ req[r].booking_id = b
           /\ req'[r].pc = "done" /\ req'[r].result = 500)
          => /\ bookings'[b].status = "expired"
             /\ bookings'[b].payment_status = "none"
             /\ OwnedSlots(b)' = {} ]_vars

\* C17: when createBooking returns 200 for a booking that nothing else has
\* touched (it is still pending_payment), the booking owns exactly the
\* ceil(D/60) slots of [S, S+D), its payment status is pending, and the
\* claims of the request changed no slot outside that range.
C17_SuccessClaimsExactlyTheRun ==
    /\ [][ \A r \in ReqIds, b \in BookingIds :
              (req[r].pc = "save" /\ req[r].booking_id = b /\ req'[r].result = 200
               /\ bookings[b].status = "pending_payment")
              => /\ bookings'[b].status = "pending_payment"
                 /\ bookings'[b].payment_status = "pending"
                 /\ OwnedSlots(b)' =
                        SlotsWithin(req[r].start_time, DurationMin(req[r].service_id))
                 /\ Cardinality(OwnedSlots(b)') =
                        SlotsNeededForDuration(DurationMin(req[r].service_id)) ]_vars
    /\ [][ \A r \in ReqIds :
              (req[r].pc = "claim" /\ req'[r] # req[r]) =>
                  \A s \in SlotIds \ SlotsWithin(req[r].start_time,
                                                 DurationMin(req[r].service_id)) :
                      is_booked'[s] = is_booked[s] /\ slot_booking'[s] = slot_booking[s] ]_vars

C19_WebhookAlwaysOk ==
    hook.event # "none" => hook.status = 200

\* The admitted checks of the same key that precede check j and lie within
\* one window before it.
AdmittedInWindowBefore(j) ==
    {i \in 1..(j - 1) :
        /\ checks[i].tier = checks[j].tier /\ checks[i].ip = checks[j].ip
        /\ checks[i].ok
        /\ checks[i].at > checks[j].at - WindowOf(checks[j].tier)}

\* C20: for each (tier, ip) key, a check is admitted exactly when fewer than
\* max_requests checks of that key were admitted within the window before
\* it (so the first max_requests are admitted, the next is rejected, and a
\* check made once the window has elapsed is admitted again); a rejected
\* check carries retry_after > 0.
C20_SlidingWindowAdmission ==
    \A j \in 1..Len(checks) :
        /\ checks[j].ok <=>
               Cardinality(AdmittedInWindowBefore(j)) < MaxRequestsOf(checks[j].tier)
        /\ ~checks[j].ok => checks[j].retry_after > 0

\* C20 witness: on one key the first max_requests checks were admitted, the
\* next one in the same window was rejected, and a check after the window
\* had elapsed was admitted.
C20_Witness ==
    /\ Len(checks) = 4
    /\ \A j \in 1..4 : checks[j].tier = "booking" /\ checks[j].ip = 1
    /\ checks[1].ok /\ checks[2].ok /\ ~checks[3].ok /\ checks[4].ok
    /\ checks[3].at < checks[1].at + WindowOf("booking")
    /\ checks[4].at = checks[2].at + WindowOf("booking")

\* The oldest admitted check of the same key within the window before check j.
OldestInWindowBefore(j) ==
    CHOOSE i \in AdmittedInWindowBefore(j) :
        \A o \in AdmittedInWindowBefore(j) : checks[i].at <= checks[o].at

C22_KeysAreIndependent ==
    /\ [][ \A tier \in Tiers, ip \in Ips :
              Check(tier, ip) =>
                  \A key \in Keys \ {<<tier, ip>>} : stamps'[key] = stamps[key] ]_vars
    /\ [][ \A tier \in Tiers, ip \in Ips :
              (Check(tier, ip)
               /\ \A i \in 1..Len(checks) :
                      (checks[i].tier = tier /\ checks[i].ip = ip /\ checks[i].ok)
                      => checks[i].at <= clock - WindowOf(tier))
              => checks'[Len(checks')].ok ]_vars

\* C22 witness: one key is exhausted (its last check was rejected) and, at
\* the same instant, checks on the same ip in the other tier and on the
\* other ip in the same tier were admitted.
C22_Witness ==
    \E j, k, l \in 1..Len(checks) :
        /\ j < k /\ j < l
        /\ ~checks[j].ok /\ checks[k].ok /\ checks[l].ok
        /\ checks[k].at = checks[j].at /\ checks[l].at = checks[j].at
        /\ checks[k].ip = checks[j].ip /\ checks[k].tier # checks[j].tier
        /\ checks[l].tier = checks[j].tier /\ checks[l].ip # checks[j].ip

\* The timestamp list of check j's key after the first n checks when no
\* cleanup ever runs: the checks replayed with eviction and recording only.
RECURSIVE NoCleanupEntry(_, _)
NoCleanupEntry(j, n) ==
    IF n = 0 THEN <<>>
    ELSE LET before == NoCleanupEntry(j, n - 1)
         IN  IF checks[n].tier # checks[j].tier \/ checks[n].ip # checks[j].ip
             THEN before
             ELSE LET entry == SelectSeq(before,
                                LAMBDA t : t > checks[n].at - WindowOf(checks[n].tier))
                  IN  IF Len(entry) >= MaxRequestsOf(checks[n].tier)
                      THEN entry ELSE Append(entry, checks[n].at)

\* C23: cleanup drops from every entry exactly the timestamps that are at
\* least 2 x window old (an entry whose timestamps are all that old is
\* gone) and no timestamp that is still inside the window; hence every
\* check has the result it has in the same sequence without cleanup calls.
C23_CleanupIsTransparent ==
    /\ [][ (stamps' # stamps /\ checks' = checks) =>
              \A key \in Keys :
                  /\ stamps'[key] = SelectSeq(stamps[key],
                         LAMBDA t : clock - t < 2 * WindowOf(key[1]))
                  /\ \A k \in 1..Len(stamps[key]) :
                         clock - stamps[key][k] < WindowOf(key[1])
                         => \E m \in 1..Len(stamps'[key]) :
                                stamps'[key][m] = stamps[key][k] ]_vars
    /\ [] \A j \in 1..Len(checks) :
             LET entry == SelectSeq(NoCleanupEntry(j, j - 1),
                            LAMBDA t : t > checks[j].at - WindowOf(checks[j].tier))
             IN  /\ checks[j].ok <=> Len(entry) < MaxRequestsOf(checks[j].tier)
                 /\ ~checks[j].ok =>
                        checks[j].retry_after =
                            RetryAfter(entry[1], WindowOf(checks[j].tier), checks[j].at)

\* C23 witness: cleanup removed the entry of a key whose admitted check is
\* at least 2 x window old, kept the timestamp of another key that is still
\* inside its window, and a check was rejected earlier on.
C23_Witness ==
    \E j, l, r \in 1..Len(checks) :
        /\ checks[j].ok /\ clock - checks[j].at >= 2 * WindowOf(checks[j].tier)
        /\ stamps[<<checks[j].tier, checks[j].ip>>] = <<>>
        /\ checks[l].ok /\ clock - checks[l].at < WindowOf(checks[l].tier)
        /\ stamps[<<checks[l].tier, checks[l].ip>>] = <<checks[l].at>>
        /\ ~checks[r].ok

\* C24: every request that is passed on to its handler was admitted by a
\* rate-limit check on some tier, on every route of the server.
C24_EveryRoutePassesTheLimiter ==
    \A j \in 1..Len(checks) :
        checks[j].response = PassedOn =>
            (checks[j].tier \in RouteTiers /\ checks[j].ok)

\* C25: slots_needed_for_duration(d) is ceil(d / 60) for every positive
\* duration d: the least whole number of hours that covers d minutes.
C25_SlotsNeededIsCeiling ==
    calc.fn = "slots_needed_for_duration" =>
        /\ calc.result * 60 >= calc.duration_min
        /\ (calc.result - 1) * 60 < calc.duration_min
        /\ (calc.duration_min \in {30, 60} => calc.result = 1)
        /\ (calc.duration_min \in {61, 90, 120} => calc.result = 2)
        /\ (calc.duration_min = 180 => calc.result = 3)

C25_Witness ==
    /\ calc.fn = "slots_needed_for_duration"
    /\ calc.duration_min = 61
    /\ calc.result = 2

\* A run of needed slots starts at index i of the list: the slots exist, none
\* is booked, and each one ends where the next one starts.
QualifiesAt(slots, i, needed) ==
    /\ i + needed - 1 <= Len(slots)
    /\ \A k \in i..(i + needed - 1) : ~slots[k].is_booked
    /\ \A k \in i..(i + needed - 2) : slots[k].end_time = slots[k + 1].start_time

\* C26: has_consecutive_free_slots(slots, needed) is true exactly when some
\* index of the time-ordered list starts a run of needed existing, free,
\* abutting slots; it is false for the empty list and for a list shorter
\* than needed.
C26_HasConsecutiveIffRunExists ==
    calc.fn = "has_consecutive_free_slots" =>
        /\ calc.result <=>
               \E i \in 1..Len(calc.slots) : QualifiesAt(calc.slots, i, calc.needed)
        /\ (Len(calc.slots) < calc.needed => ~calc.result)

\* Two free slots with a gap between them, two slots needed: no run.
C26_Witness ==
    /\ calc.fn = "has_consecutive_free_slots"
    /\ calc.needed = 2
    /\ Len(calc.slots) = 2
    /\ \A k \in 1..2 : ~calc.slots[k].is_booked
    /\ calc.slots[1].end_time # calc.slots[2].start_time
    /\ ~calc.result

\* The block of the run that starts at index i.
BlockAt(slots, i, needed) ==
    [start_time |-> slots[i].start_time, end_time |-> slots[i + needed - 1].end_time]

\* The blocks of the indices in S, in ascending index order.
BlocksOf(slots, S, needed) ==
    LET order == OrderById(S)
    IN  [n \in 1..Len(order) |-> BlockAt(slots, order[n], needed)]

QualifyingStarts(slots, needed) ==
    {i \in 1..Len(slots) : QualifiesAt(slots, i, needed)}

\* C27: in free mode find_bookable_blocks returns, in chronological order,
\* exactly one block (slots[i].start, slots[i+needed-1].end) for every index
\* i that starts a run of needed free abutting slots, and nothing else.
C27_FreeModeListsEveryRun ==
    (calc.fn = "find_bookable_blocks" /\ ~calc.is_tight) =>
        /\ calc.result =
               BlocksOf(calc.slots, QualifyingStarts(calc.slots, calc.needed), calc.needed)
        /\ \A n \in 1..(Len(calc.result) - 1) :
               calc.result[n].start_time < calc.result[n + 1].start_time
        /\ (calc.slots = <<>> => calc.result = <<>>)

\* Three free abutting slots, two needed: the two overlapping blocks.
C27_Witness ==
    /\ calc.fn = "find_bookable_blocks"
    /\ ~calc.is_tight
    /\ calc.needed = 2
    /\ Len(calc.slots) = 3
    /\ \A k \in 1..3 : ~calc.slots[k].is_booked
    /\ calc.result =
           << [start_time |-> SlotStart(1), end_time |-> SlotEnd(2)],
              [start_time |-> SlotStart(2), end_time |-> SlotEnd(3)] >>

BookedIn(slots) == {k \in 1..Len(slots) : slots[k].is_booked}

\* The run starting at index i touches a booked slot of the list: it starts
\* at a booked slot's end or ends at a booked slot's start.
TouchesBooked(slots, i, needed) ==
    \E k \in BookedIn(slots) :
        \/ slots[i].start_time = slots[k].end_time
        \/ slots[i + needed - 1].end_time = slots[k].start_time

\* C28: in tight mode with a booked slot on the date find_bookable_blocks
\* returns exactly the qualifying blocks that touch a booked slot; in tight
\* mode with no booked slot it returns the free-mode list.
C28_TightModeKeepsAdjacentBlocks ==
    (calc.fn = "find_bookable_blocks" /\ calc.is_tight) =>
        LET starts == QualifyingStarts(calc.slots, calc.needed)
        IN  IF BookedIn(calc.slots) # {}
            THEN calc.result =
                     BlocksOf(calc.slots,
                              {i \in starts : TouchesBooked(calc.slots, i, calc.needed)},
                              calc.needed)
            ELSE calc.result = BlocksOf(calc.slots, starts, calc.needed)

\* Second of four hourly slots booked, one slot needed: the blocks before
\* and after it are offered, the last one is suppressed.
C28_Witness ==
    /\ calc.fn = "find_bookable_blocks"
    /\ calc.is_tight
    /\ calc.needed = 1
    /\ Len(calc.slots) = 4
    /\ BookedIn(calc.slots) = {2}
    /\ calc.result =
           << [start_time |-> SlotStart(1), end_time |-> SlotEnd(1)],
              [start_time |-> SlotStart(3), end_time |-> SlotEnd(3)] >>

\* C29: the mode label of available_times is "tight" exactly when the
\* adjacency restriction was applied to the list: the date is within
\* TIGHT_MODE_DAYS and some slot of the date is booked; otherwise "free".
C29_ModeLabelMatchesList ==
    calc.fn = "available_times" =>
        (calc.mode = "tight" <=>
            /\ calc.service_id \in ServiceIds
            /\ calc.days_until <= TIGHT_MODE_DAYS
            /\ BookedIn(calc.slots) # {})

\* C30: open_day is idempotent per (date, start time): a call that directly
\* follows another call leaves the slots as they were; after every call each
\* start hour of the day has exactly one slot; and a call keeps every slot
\* that existed before it, with its booked flag and its owner.
C30_OpenDayIdempotent ==
    [][OpenDay =>
         /\ (calc.fn = "open_day" => day' = day)
         /\ \A hour \in OpenHours :
                Cardinality({r \in day' : r.start_time = hour * 100}) = 1
         /\ day \subseteq day'
      ]_vars

\* A second call in a row on a day that has a booked slot and a slot that
\* was deleted and created again.
C30_Witness ==
    /\ calc.fn = "open_day"
    /\ calc.calls = 2
    /\ \E r \in day : r.is_booked /\ r.booking_id # NULL
    /\ \E r \in day : r.id = MaxSlotId
    /\ Cardinality(day) = OPEN_DAY_END_HOUR - OPEN_DAY_FIRST_HOUR

\* C32: a create_booking whose claim finds the slot already taken goes to
\* the compensating rollback (booking expired / none, its slots released,
\* 409) instead of going on to the next slot or to the payment.
C32_LostClaimRollsBack ==
    [][ \A r \in ReqIds :
          ( /\ req[r].pc = "claim"
            /\ req'[r] # req[r]
            /\ is_booked[req[r].slots[req[r].i]] )
          => req'[r].pc = "rollback" ]_vars

\* C33: a statement of the rollback of a failed create_booking leaves every
\* slot that another booking owns booked and with the same owner.
C33_RollbackSparesOthers ==
    [][ \A r \in ReqIds :
          (req[r].pc = "rollback_slots" /\ req'[r] # req[r]) =>
              \A s \in SlotIds :
                  (slot_booking[s] # NULL /\ slot_booking[s] # req[r].booking_id)
                  => (is_booked'[s] /\ slot_booking'[s] = slot_booking[s]) ]_vars

\* C34: the slot releases of a cancel of booking b, on the client and on the
\* operator path, leave every slot that another booking owns booked and with
\* the same owner, the slot of b's stored slot_id included.
C34_CancelReleasesOnlyOwn ==
    [][ \A b \in BookingIds :
          ( \/ (cc.id = b /\ cc.pc \in {"free_booking", "free_slot"} /\ cc' # cc)
            \/ (ac.id = b /\ ac.pc \in {"free_booking", "free_slot"} /\ ac' # ac) )
          => \A s \in SlotIds :
                 (slot_booking[s] # NULL /\ slot_booking[s] # b)
                 => (is_booked'[s] /\ slot_booking'[s] = slot_booking[s]) ]_vars

\* C38: in every state the status and the payment status of a booking fit:
\* pending_payment with pending, confirmed with paid, expired with none, and
\* refunded only with cancelled.
C38_StatusPaymentPairs ==
    \A b \in BookingIds :
        /\ bookings[b].status = "pending_payment" => bookings[b].payment_status = "pending"
        /\ bookings[b].status = "confirmed" => bookings[b].payment_status = "paid"
        /\ bookings[b].status = "expired" => bookings[b].payment_status = "none"
        /\ bookings[b].payment_status = "refunded" => bookings[b].status = "cancelled"

\* C36: on the same rows and for the same needed >= 1, the date test
\* has_consecutive_free_slots is true exactly when the free-mode list of
\* find_bookable_blocks is not empty.
C36_DatesAgreeWithTimes ==
    calc.fn = "date_and_times" => (calc.available <=> calc.times # <<>>)

\* A date with a booked slot that still has exactly one run of two.
C36_Witness ==
    /\ calc.fn = "date_and_times"
    /\ calc.needed = 2
    /\ BookedIn(calc.slots) # {}
    /\ calc.available
    /\ Len(calc.times) = 1

\* C37: every block that available_times offers for a service can be
\* booked on unchanged rows: create_booking at the block's start finds at
\* least slots_needed slots, passes its 404 and 409 checks, and stores the
\* block's end as end_time.
C37_OfferedBlocksAreBookable ==
    calc.fn = "book_blocks" =>
        \A n \in 1..Len(calc.times) :
            /\ calc.bookings[n].status = 200
            /\ calc.bookings[n].found * 60 >= calc.duration_min
            /\ calc.bookings[n].end_time = calc.times[n].end_time

\* C35: the operator gets the payment notification of a booking only from
\* the payment.succeeded delivery that moves the booking from
\* pending_payment to confirmed, hence at most once.
C35_NotifiedOnFirstSuccessOnly ==
    [][ \A b \in BookingIds :
          (hook' # hook /\ hook'.notified /\ hook'.booking_id = b) =>
              /\ bookings[b].status = "pending_payment"
              /\ bookings'[b].status = "confirmed" ]_vars

\* C31: a slot that is booked (claimed by a booking) is never removed from
\* the table, whatever the interleaving of delete_slot with the claim.
C31_OwnedSlotIsNeverDeleted ==
    [][ \A r \in day : r.is_booked => \E q \in day' : q.id = r.id ]_vars

\* C39: for every booking, the gateway refund call is made at most once,
\* whatever the interleaving of the cancel requests for it.
C39_AtMostOneRefundRequest ==
    \A b \in BookingIds : RefundRequests(b) <= 1

\* The admitted checks of the key of check j whose timestamps lie in the
\* interval of one window length that ends at the timestamp of check j.
AdmittedInTrailingWindow(j) ==
    {i \in 1..Len(checks) :
        /\ checks[i].tier = checks[j].tier /\ checks[i].ip = checks[j].ip
        /\ checks[i].ok
        /\ checks[i].at > checks[j].at - WindowOf(checks[j].tier)
        /\ checks[i].at <= checks[j].at}

\* C40: whatever the interleaving of concurrent checks on one key, the
\* admitted checks whose timestamps lie in a trailing interval of one window
\* length are never more than max_requests.
C40_WindowNeverOverfull ==
    \A j \in 1..Len(checks) :
        checks[j].ok =>
            Cardinality(AdmittedInTrailingWindow(j)) <= MaxRequestsOf(checks[j].tier)

====
